---- MODULE Spec2Model ----
(***************************************************************************)
(* GameSocio: the rating aggregate of CollaborationZone, the upvote        *)
(* counters of IdeasHub / CommunityMedia, the portfolio form of Profile    *)
(* with its attachment, and the repository (tables, row level policies,    *)
(* CHECK constraints) and storage bucket they write to.                    *)
(*                                                                         *)
(* Every supabase call is a network round trip: a handler is modelled as   *)
(* one step per await, and the repository applies a request in the step    *)
(* that resolves it.  A handler reads the React state of the render it was *)
(* created in, so the values it uses are captured when it is invoked.      *)
(*                                                                         *)
(* Spec        the feedback form and the rating aggregate                  *)
(* SpecRaw     the same, started with any integer in the form's rating     *)
(* SpecStars   the same, with the first and the last star clicked          *)
(* SpecUpvote  the upvote buttons of the idea and post lists               *)
(* SpecRefetch the same, with no request failing                           *)
(* SpecAvg     getAverageRating over bounded aggregates                    *)
(* SpecDraft   the attachment of the portfolio form while it stays open    *)
(* SpecSubmit     the portfolio form and the list of items                 *)
(* SpecPortfolio  the profile page: form, items, bucket                    *)
(* SpecRecord     the same, with a file named like a stored object         *)
(* SpecTags       the tag buttons of the portfolio form                    *)
(* SpecFileType   getFileType over bounded file names                      *)
(***************************************************************************)
EXTENDS Bags, FiniteSets, Integers, Sequences, TLC

(***************************************************************************)
(* Bounds                                                                  *)
(***************************************************************************)
\* project_feedback rows the model lets the clients insert
MaxFeedback == 2
\* list selects (loadProjects, loadIdeas, loadPosts) one client has in flight
MaxLoads == 2
\* largest upvote count a client upvotes from
MaxUpvotes == 2
\* aggregates getAverageRating is applied to
MaxAvgSum == 15
MaxAvgCount == 6

(***************************************************************************)
(* Sessions, users and rows                                                *)
(***************************************************************************)
Clients == {"c1", "c2"}
Users == {"u1", "u2"}
\* useAuth() gives user = null when nobody is signed in
NoUser == "null"
\* the sessions tried: one client or two, of the creator or of another user
Sessions ==
    { [c \in Clients |-> IF c = "c1" THEN u1 ELSE u2] :
          u1 \in Users, u2 \in Users \cup {NoUser} } \
    { [c \in Clients |-> "u2"] }
Projects == {"p1"}
\* selectedProject = null
Null == "null"
\* the star buttons [1, 2, 3, 4, 5] of the feedback form
MinRating == 1
MaxRating == 5
Ratings == MinRating..MaxRating
\* the stars the modelled users click
RatingChoices == {3, 4, 5}
\* useState(5)
DefaultRating == 5
\* integers next to the range of the star buttons
BadRatings == {MinRating - 1, MaxRating + 1}

\* projects.creator_id
creator_id(p) == "u1"

\* rating_sum integer DEFAULT 0, rating_count integer DEFAULT 0
NewProject == [rating_sum |-> 0, rating_count |-> 0]

\* useState<Project[]>([])
EmptyList == [p \in {} |-> NewProject]

NoCall == [project_id |-> Null, rating |-> 0, found |-> FALSE, project |-> NewProject]

\* the tables with an upvotes column, and the one row each holds in the model
Tables == {"game_ideas", "media_posts"}
Items == {"idea1", "post1"}
TableOf(i) == IF i = "idea1" THEN "game_ideas" ELSE "media_posts"
ItemsOf(t) == {i \in Items : TableOf(i) = t}
\* game_ideas.creator_id, media_posts.author_id
owner_id(i) == "u1"
\* upvotes integer DEFAULT 0
NewUpvotes == 0
\* useState<GameIdea[]>([]), useState<MediaPost[]>([])
EmptyIdeas == [i \in {} |-> NewUpvotes]
NoRun == [base |-> -1, repeated |-> FALSE]
\* getAverageRating has not been applied yet
NotRendered == -1

VARIABLES
    user,            \* client -> signed-in user or NoUser
    projectsTbl,     \* table projects: id -> [rating_sum, rating_count]
    feedbackTbl,     \* table project_feedback: bag of rows
    projects,        \* client -> React state `projects` (last list fetched)
    selectedProject, \* client -> React state `selectedProject`
    rating,          \* client -> React state `rating`
    pcF,             \* client -> position of its handleFeedbackSubmit
    call,            \* client -> values captured by the running handler
    loadsPending,    \* client -> loadProjects selects sent, not yet answered
    loadsReady,      \* client -> answers to loadProjects not yet received
    lastWrite,       \* result of the project / feedback write the last step resolved
    section,         \* client -> table of the list it shows (activeSection)
    upvotesTbl,      \* column upvotes of game_ideas / media_posts: id -> upvotes
    ideas,           \* client -> React state `ideas` / `posts` (last list fetched)
    upReqs,          \* upvote updates sent, not yet resolved
    listPending,     \* client -> loadIdeas / loadPosts selects sent, not yet answered
    listReady,       \* client -> answers to loadIdeas / loadPosts not yet received
    run,             \* id -> base of the upvote applied last, and whether it repeats
    lastUpvote,      \* result of the upvote update the last step resolved
    avgProject,      \* the project getAverageRating is applied to
    avgOut,          \* its result in tenths
    now,             \* the last Date.now() the profile page has read
    bucket,          \* storage bucket portfolio_uploads: key -> file stored
    portfolioTbl,    \* table portfolio_items: id -> row
    nextId,          \* rows inserted into portfolio_items so far
    portfolioItems,  \* React state `portfolioItems` (last list fetched)
    showPortfolioForm, \* React state `showPortfolioForm`
    editingItem,     \* React state `editingItem` (an id or Null)
    portfolioFormData, \* React state `portfolioFormData` (the draft)
    uploadingFile,   \* React state `uploadingFile`
    uploadReq,       \* the storage upload in flight, or NoUpload
    deleteReq,       \* the storage remove of handleClearFile in flight
    submitReq,       \* the insert / update of handlePortfolioSubmit in flight
    itemDeleteReqs,  \* ids whose portfolio_items delete is in flight
    itemLoadsPending, \* loadPortfolioItems selects sent, not yet answered
    itemLoadsReady,  \* answers to loadPortfolioItems not yet received
    lastStep,        \* what the last step of the profile page did
    fileTypeCall     \* the name getFileType is applied to, and its result

ratingVars == <<projectsTbl, feedbackTbl, projects, selectedProject, rating,
                pcF, call, loadsPending, loadsReady, lastWrite>>

upvoteVars == <<section, upvotesTbl, ideas, upReqs, listPending, listReady, run,
                lastUpvote>>

avgVars == <<avgProject, avgOut>>

portfolioVars == <<now, bucket, portfolioTbl, nextId, portfolioItems,
                   showPortfolioForm, editingItem, portfolioFormData,
                   uploadingFile, uploadReq, deleteReq, submitReq,
                   itemDeleteReqs, itemLoadsPending, itemLoadsReady, lastStep>>

fileTypeVars == <<fileTypeCall>>

vars == <<user, ratingVars, upvoteVars, avgVars, portfolioVars, fileTypeVars>>

\* if (!user) return <Auth />: the sections and the profile page are
\* rendered, with their lists and buttons, for a signed-in user only
Rendered_always(c) == TRUE
Rendered(c) == user[c] # NoUser

(***************************************************************************)
(* Repository: projects and project_feedback                               *)
(***************************************************************************)
\* rating integer CHECK (rating >= 1 AND rating <= 5)
RatingCheck_none(r) == TRUE

RatingCheck(r) == r >= 1 /\ r <= 5

\* policy "Creators can update own projects": USING (auth.uid() = creator_id)
CanUpdateProject(u, p) == u = creator_id(p)

FeedbackRow(p, u, r) == [project_id |-> p, user_id |-> u, rating |-> r]

RowsOf(p) == {row \in BagToSet(feedbackTbl) : row.project_id = p}

RECURSIVE SumRatings(_)
SumRatings(S) ==
    IF S = {} THEN 0
    ELSE LET row == CHOOSE x \in S : TRUE
         IN  row.rating * CopiesIn(row, feedbackTbl) + SumRatings(S \ {row})

RECURSIVE CountRows(_)
CountRows(S) ==
    IF S = {} THEN 0
    ELSE LET row == CHOOSE x \in S : TRUE
         IN  CopiesIn(row, feedbackTbl) + CountRows(S \ {row})

\* the aggregate the feedback rows of project p add up to
FeedbackTotals(p) ==
    [rating_sum |-> SumRatings(RowsOf(p)), rating_count |-> CountRows(RowsOf(p))]

InFlightLoads(c) == loadsPending[c] + Cardinality(loadsReady[c])

InFlightInserts == Cardinality({c \in Clients : pcF[c] = "insert"})

(***************************************************************************)
(* CollaborationZone                                                       *)
(***************************************************************************)
\* onClick={() => setSelectedProject(project.id)} of a listed project; the
\* feedback form it opens covers the list
SelectProject(c, p) ==
    /\ Rendered(c)
    /\ selectedProject[c] = Null
    /\ p \in DOMAIN projects[c]
    /\ selectedProject' = [selectedProject EXCEPT ![c] = p]
    /\ UNCHANGED <<projectsTbl, feedbackTbl, projects, rating, pcF, call,
                   loadsPending, loadsReady>>
    /\ lastWrite' = "none"
    /\ UNCHANGED <<user, upvoteVars, avgVars, portfolioVars, fileTypeVars>>

\* onClick={() => setRating(value)} of the star buttons
SetRating(c, v) ==
    /\ selectedProject[c] # Null
    /\ v \in Ratings
    /\ rating[c] # v
    /\ rating' = [rating EXCEPT ![c] = v]
    /\ UNCHANGED <<projectsTbl, feedbackTbl, projects, selectedProject, pcF, call,
                   loadsPending, loadsReady>>
    /\ lastWrite' = "none"
    /\ UNCHANGED <<user, upvoteVars, avgVars, portfolioVars, fileTypeVars>>

\* Cancel button of the feedback form
CancelFeedback(c) ==
    /\ selectedProject[c] # Null
    /\ selectedProject' = [selectedProject EXCEPT ![c] = Null]
    /\ rating' = [rating EXCEPT ![c] = DefaultRating]
    /\ UNCHANGED <<projectsTbl, feedbackTbl, projects, pcF, call,
                   loadsPending, loadsReady>>
    /\ lastWrite' = "none"
    /\ UNCHANGED <<user, upvoteVars, avgVars, portfolioVars, fileTypeVars>>

\* projects.find(p => p.id === selectedProject) on the list of the handler's render
FindProject(list, id) ==
    IF id \in DOMAIN list
    THEN [found |-> TRUE, project |-> list[id]]
    ELSE [found |-> FALSE, project |-> NewProject]

\* handleFeedbackSubmit up to its first await: the insert is sent.  One
\* submit of a client runs at a time.
FeedbackSubmit(c) ==
    /\ pcF[c] = "idle"
    /\ user[c] # NoUser
    /\ selectedProject[c] # Null
    /\ CountRows(BagToSet(feedbackTbl)) + InFlightInserts < MaxFeedback
    /\ InFlightLoads(c) < MaxLoads
    /\ LET f == FindProject(projects[c], selectedProject[c])
       IN  call' = [call EXCEPT ![c] = [project_id |-> selectedProject[c],
                                        rating |-> rating[c],
                                        found |-> f.found,
                                        project |-> f.project]]
    /\ pcF' = [pcF EXCEPT ![c] = "insert"]
    /\ UNCHANGED <<projectsTbl, feedbackTbl, projects, selectedProject, rating,
                   loadsPending, loadsReady>>
    /\ lastWrite' = "none"
    /\ UNCHANGED <<user, upvoteVars, avgVars, portfolioVars, fileTypeVars>>

\* setFeedbackText(''); setRating(5); setSelectedProject(null); loadProjects()
FinishSubmit(c) ==
    /\ rating' = [rating EXCEPT ![c] = DefaultRating]
    /\ selectedProject' = [selectedProject EXCEPT ![c] = Null]
    /\ loadsPending' = [loadsPending EXCEPT ![c] = @ + 1]
    /\ pcF' = [pcF EXCEPT ![c] = "idle"]
    /\ call' = [call EXCEPT ![c] = NoCall]

\* the insert into project_feedback is accepted; with a project found in the
\* list the update is sent next
InsertOk(c) ==
    /\ pcF[c] = "insert"
    /\ RatingCheck(call[c].rating)
    /\ feedbackTbl' = feedbackTbl (+)
           SetToBag({FeedbackRow(call[c].project_id, user[c], call[c].rating)})
    /\ IF call[c].found
       THEN /\ pcF' = [pcF EXCEPT ![c] = "update"]
            /\ UNCHANGED <<rating, selectedProject, loadsPending, call>>
       ELSE FinishSubmit(c)
    /\ lastWrite' = "inserted"
    /\ UNCHANGED <<projectsTbl, projects, loadsReady>>
    /\ UNCHANGED <<user, upvoteVars, avgVars, portfolioVars, fileTypeVars>>

\* the insert reports an error (the transport's, or the CHECK constraint's):
\* `if (error) throw error` goes to the catch
InsertFail_update(c) ==
    /\ pcF[c] = "insert"
    /\ pcF' = [pcF EXCEPT ![c] = IF call[c].found THEN "update" ELSE "idle"]
    /\ call' = [call EXCEPT ![c] = IF call[c].found THEN @ ELSE NoCall]
    /\ lastWrite' = "insert_error"
    /\ UNCHANGED <<projectsTbl, feedbackTbl, projects, selectedProject, rating,
                   loadsPending, loadsReady>>
    /\ UNCHANGED <<user, upvoteVars, avgVars, portfolioVars, fileTypeVars>>
InsertFail(c) ==
    /\ pcF[c] = "insert"
    /\ pcF' = [pcF EXCEPT ![c] = "idle"]
    /\ call' = [call EXCEPT ![c] = NoCall]
    /\ lastWrite' = "insert_error"
    /\ UNCHANGED <<projectsTbl, feedbackTbl, projects, selectedProject, rating,
                   loadsPending, loadsReady>>
    /\ UNCHANGED <<user, upvoteVars, avgVars, portfolioVars, fileTypeVars>>

\* the row the update of handleFeedbackSubmit writes
RatedProject_sumOnly(project, r) ==
    [rating_sum |-> project.rating_sum + r, rating_count |-> project.rating_count]
RatedProject(project, r) ==
    [rating_sum |-> project.rating_sum + r, rating_count |-> project.rating_count + 1]

\* the update of projects resolves without an error; a row the policy hides
\* from the caller is not updated
UpdateOk(c) ==
    /\ pcF[c] = "update"
    /\ IF CanUpdateProject(user[c], call[c].project_id)
       THEN /\ projectsTbl' = [projectsTbl EXCEPT ![call[c].project_id] =
                                   RatedProject(call[c].project, call[c].rating)]
            /\ lastWrite' = "updated"
       ELSE /\ UNCHANGED projectsTbl
            /\ lastWrite' = "update_denied"
    /\ FinishSubmit(c)
    /\ UNCHANGED <<feedbackTbl, projects, loadsReady>>
    /\ UNCHANGED <<user, upvoteVars, avgVars, portfolioVars, fileTypeVars>>

UpdateFail_rollback(c) ==
    /\ pcF[c] = "update"
    /\ lastWrite' = "update_error"
    /\ FinishSubmit(c)
    /\ feedbackTbl' = feedbackTbl (-)
           SetToBag({FeedbackRow(call[c].project_id, user[c], call[c].rating)})
    /\ UNCHANGED <<projectsTbl, projects, loadsReady>>
    /\ UNCHANGED <<user, upvoteVars, avgVars, portfolioVars, fileTypeVars>>

\* the update reports an error; its result is not looked at
UpdateFail(c) ==
    /\ pcF[c] = "update"
    /\ lastWrite' = "update_error"
    /\ FinishSubmit(c)
    /\ UNCHANGED <<projectsTbl, feedbackTbl, projects, loadsReady>>
    /\ UNCHANGED <<user, upvoteVars, avgVars, portfolioVars, fileTypeVars>>

\* the select of loadProjects is answered with the rows of the table
LoadServe(c) ==
    /\ loadsPending[c] > 0
    /\ loadsPending' = [loadsPending EXCEPT ![c] = @ - 1]
    /\ loadsReady' = [loadsReady EXCEPT ![c] = @ \cup {projectsTbl}]
    /\ UNCHANGED <<projectsTbl, feedbackTbl, projects, selectedProject, rating,
                   pcF, call>>
    /\ lastWrite' = "none"
    /\ UNCHANGED <<user, upvoteVars, avgVars, portfolioVars, fileTypeVars>>

\* the select of loadProjects reports an error: the list is left as it is
LoadFail(c) ==
    /\ loadsPending[c] > 0
    /\ loadsPending' = [loadsPending EXCEPT ![c] = @ - 1]
    /\ UNCHANGED <<projectsTbl, feedbackTbl, projects, selectedProject, rating,
                   pcF, call, loadsReady>>
    /\ lastWrite' = "none"
    /\ UNCHANGED <<user, upvoteVars, avgVars, portfolioVars, fileTypeVars>>

\* setProjects(data || [])
LoadDeliver(c, data) ==
    /\ data \in loadsReady[c]
    /\ loadsReady' = [loadsReady EXCEPT ![c] = @ \ {data}]
    /\ projects' = [projects EXCEPT ![c] = data]
    /\ UNCHANGED <<projectsTbl, feedbackTbl, selectedProject, rating,
                   pcF, call, loadsPending>>
    /\ lastWrite' = "none"
    /\ UNCHANGED <<user, upvoteVars, avgVars, portfolioVars, fileTypeVars>>

\* CollaborationZone mounts (useEffect: loadProjects) with the form's rating in rs
InitRating(rs) ==
    /\ projectsTbl = [p \in Projects |-> NewProject]
    /\ feedbackTbl = EmptyBag
    /\ projects = [c \in Clients |-> EmptyList]
    /\ selectedProject = [c \in Clients |-> Null]
    /\ rating \in [Clients -> rs]
    /\ pcF = [c \in Clients |-> "idle"]
    /\ call = [c \in Clients |-> NoCall]
    /\ loadsPending = [c \in Clients |-> IF Rendered(c) THEN 1 ELSE 0]
    /\ loadsReady = [c \in Clients |-> {}]
    /\ lastWrite = "none"

\* CollaborationZone is not shown
RatingOff ==
    /\ projectsTbl = [p \in Projects |-> NewProject]
    /\ feedbackTbl = EmptyBag
    /\ projects = [c \in Clients |-> EmptyList]
    /\ selectedProject = [c \in Clients |-> Null]
    /\ rating = [c \in Clients |-> DefaultRating]
    /\ pcF = [c \in Clients |-> "idle"]
    /\ call = [c \in Clients |-> NoCall]
    /\ loadsPending = [c \in Clients |-> 0]
    /\ loadsReady = [c \in Clients |-> {}]
    /\ lastWrite = "none"

(***************************************************************************)
(* Repository: game_ideas and media_posts                                  *)
(***************************************************************************)
\* policies "Creators can update own ideas" / "Authors can update own posts":
\* USING (auth.uid() = creator_id), USING (auth.uid() = author_id)
CanUpdateItem(u, i) == u = owner_id(i)

UpvoteWrite_increment(stored, currentUpvotes) == stored + 1

\* .update({ upvotes: currentUpvotes + 1 }): the value the row is set to
UpvoteWrite(stored, currentUpvotes) == currentUpvotes + 1

\* the rows a select of table t returns
SelectUpvotes(t) == [i \in ItemsOf(t) |-> upvotesTbl[i]]

InFlightListLoads(c) == listPending[c] + Cardinality(listReady[c])

UpvotesOf(c) == {q \in upReqs : q.client = c}

\* the base of the upvote applied last to a row, and whether the upvote
\* applied before it had the same base
NextRun(r, base) == [base |-> base, repeated |-> r.base = base]

(***************************************************************************)
(* IdeasHub, CommunityMedia                                                *)
(***************************************************************************)
\* onClick={() => handleUpvote(idea.id, idea.upvotes)} of a listed row:
\* handleUpvote up to its await, the update is sent
Upvote(c, i) ==
    /\ Rendered(c)
    /\ i \in DOMAIN ideas[c]
    /\ ideas[c][i] < MaxUpvotes
    /\ InFlightListLoads(c) + Cardinality(UpvotesOf(c)) < MaxLoads
    /\ LET q == [client |-> c, id |-> i, currentUpvotes |-> ideas[c][i]]
       IN  /\ q \notin upReqs
           /\ upReqs' = upReqs \cup {q}
    /\ UNCHANGED <<section, upvotesTbl, ideas, listPending, listReady, run>>
    /\ lastUpvote' = "none"
    /\ UNCHANGED <<user, ratingVars, avgVars, portfolioVars, fileTypeVars>>

\* the update resolves without an error (a row the policy hides from the
\* caller is not updated): loadIdeas() / loadPosts()
UpvoteOk(q) ==
    /\ q \in upReqs
    /\ upReqs' = upReqs \ {q}
    /\ IF CanUpdateItem(user[q.client], q.id)
       THEN /\ upvotesTbl' = [upvotesTbl EXCEPT ![q.id] =
                                  UpvoteWrite(upvotesTbl[q.id], q.currentUpvotes)]
            /\ run' = [run EXCEPT ![q.id] = NextRun(@, q.currentUpvotes)]
       ELSE UNCHANGED <<upvotesTbl, run>>
    /\ listPending' = [listPending EXCEPT ![q.client] = @ + 1]
    /\ lastUpvote' = "ok"
    /\ UNCHANGED <<section, ideas, listReady>>
    /\ UNCHANGED <<user, ratingVars, avgVars, portfolioVars, fileTypeVars>>

\* the update reports an error: `if (error) throw error` goes to the catch
UpvoteFail(q) ==
    /\ q \in upReqs
    /\ upReqs' = upReqs \ {q}
    /\ lastUpvote' = "error"
    /\ UNCHANGED <<section, upvotesTbl, ideas, listPending, listReady, run>>
    /\ UNCHANGED <<user, ratingVars, avgVars, portfolioVars, fileTypeVars>>

\* the select of loadIdeas / loadPosts is answered with the rows of the table
ListLoadServe(c) ==
    /\ listPending[c] > 0
    /\ listPending' = [listPending EXCEPT ![c] = @ - 1]
    /\ listReady' = [listReady EXCEPT ![c] = @ \cup {SelectUpvotes(section[c])}]
    /\ UNCHANGED <<section, upvotesTbl, ideas, upReqs, run>>
    /\ lastUpvote' = "none"
    /\ UNCHANGED <<user, ratingVars, avgVars, portfolioVars, fileTypeVars>>

\* the select reports an error: the list is left as it is
ListLoadFail(c) ==
    /\ listPending[c] > 0
    /\ listPending' = [listPending EXCEPT ![c] = @ - 1]
    /\ UNCHANGED <<section, upvotesTbl, ideas, upReqs, listReady, run>>
    /\ lastUpvote' = "none"
    /\ UNCHANGED <<user, ratingVars, avgVars, portfolioVars, fileTypeVars>>

\* setIdeas(data || []) / setPosts(data || [])
ListLoadDeliver(c, data) ==
    /\ data \in listReady[c]
    /\ listReady' = [listReady EXCEPT ![c] = @ \ {data}]
    /\ ideas' = [ideas EXCEPT ![c] = data]
    /\ UNCHANGED <<section, upvotesTbl, upReqs, listPending, run>>
    /\ lastUpvote' = "none"
    /\ UNCHANGED <<user, ratingVars, avgVars, portfolioVars, fileTypeVars>>

\* IdeasHub or CommunityMedia mounts (useEffect: loadIdeas / loadPosts)
InitUpvote ==
    /\ section \in {[c \in Clients |-> t] : t \in Tables}
    /\ upvotesTbl = [i \in Items |-> NewUpvotes]
    /\ ideas = [c \in Clients |-> EmptyIdeas]
    /\ upReqs = {}
    /\ listPending = [c \in Clients |-> IF Rendered(c) THEN 1 ELSE 0]
    /\ listReady = [c \in Clients |-> {}]
    /\ run = [i \in Items |-> NoRun]
    /\ lastUpvote = "none"

\* neither list is shown
UpvoteOff ==
    /\ section = [c \in Clients |-> "game_ideas"]
    /\ upvotesTbl = [i \in Items |-> NewUpvotes]
    /\ ideas = [c \in Clients |-> EmptyIdeas]
    /\ upReqs = {}
    /\ listPending = [c \in Clients |-> 0]
    /\ listReady = [c \in Clients |-> {}]
    /\ run = [i \in Items |-> NoRun]
    /\ lastUpvote = "none"

(***************************************************************************)
(* getAverageRating                                                        *)
(***************************************************************************)
getAverageRating_truncated(project) ==
    IF project.rating_count = 0 THEN 0
    ELSE (10 * project.rating_sum) \div project.rating_count

\* (rating_sum / rating_count).toFixed(1), in tenths.  toFixed takes the
\* nearest tenth and the larger one of two equally near; a quotient halfway
\* between two tenths is a multiple of 1/4 for every rating_count below 20,
\* hence exact as a double.
getAverageRating(project) ==
    IF project.rating_count = 0 THEN 0
    ELSE (20 * project.rating_sum + project.rating_count)
             \div (2 * project.rating_count)

\* a project card is rendered: {getAverageRating(project)}
Render ==
    /\ avgOut = NotRendered
    /\ avgOut' = getAverageRating(avgProject)
    /\ UNCHANGED <<avgProject, user, ratingVars, upvoteVars, portfolioVars,
                   fileTypeVars>>

InitAvg ==
    /\ avgProject \in [rating_sum : 0..MaxAvgSum, rating_count : 0..MaxAvgCount]
    /\ avgOut = NotRendered

AvgOff ==
    /\ avgProject = NewProject
    /\ avgOut = NotRendered

(***************************************************************************)
(* Profile page: the portfolio form, its attachment and the storage bucket *)
(*                                                                         *)
(* Texts that the code takes apart or puts together (file names, storage   *)
(* keys, URLs) are sequences of tokens; "" is the empty sequence.          *)
(***************************************************************************)
\* Date.now() values the model's clock runs through
MaxMillis == 1
\* objects the bucket may hold before the model stops uploading
MaxObjects == 2
\* round trips the handlers of the profile page wait for at a time
MaxInFlight == 1
\* rows the model lets the page insert into portfolio_items
MaxItems == 1

\* the browser tab showing the profile page, and its user
ProfileClient == "c1"
ProfileSession == [c \in Clients |-> IF c = ProfileClient THEN "u1" ELSE NoUser]

\* useState<PortfolioItem | null>(null); the rows' ids are 1, 2, ...
NoItem == 0

EmptyStr == << >>
\* files the user picks: art.png, doc.v2.pdf, README, u1-0.png
ArtPng == <<"art", ".", "png">>
DocV2Pdf == <<"doc", ".", "v2", ".", "pdf">>
Readme == <<"README">>
StoredLike == <<"u1", "-", "0", ".", "png">>
\* the files the modelled user picks, and the file input picked with:
\* handleFileUpload(e, 'image') or handleFileUpload(e, 'pdf')
Picks == {<<ArtPng, "image">>, <<DocV2Pdf, "pdf">>, <<Readme, "pdf">>,
          <<StoredLike, "image">>}

\* the files picked where the page is modelled with its items
ItemPicks == {<<ArtPng, "image">>}
\* a file that carries the name of a stored object, as a download of the
\* public URL of the user's first upload does
RecordPicks == {<<StoredLike, "image">>}

\* String.prototype.split
RECURSIVE split(_, _)
split(s, sep) ==
    IF \A i \in 1..Len(s) : s[i] # sep
    THEN <<s>>
    ELSE LET i == CHOOSE k \in 1..Len(s) :
                      s[k] = sep /\ \A j \in 1..(k - 1) : s[j] # sep
         IN  <<SubSeq(s, 1, i - 1)>> \o split(SubSeq(s, i + 1, Len(s)), sep)

\* Array.prototype.pop on a non-empty array
pop(a) == a[Len(a)]

\* const fileExt = file.name.split('.').pop()
fileExt(name) == pop(split(name, "."))

\* const fileName = `${userId}-${Date.now()}.${fileExt}`
fileName_original(userId, millis, name) == name
fileName(userId, millis, name) ==
    <<userId, "-", ToString(millis), ".">> \o fileExt(name)

\* const filePath = `${userId}/${fileName}`
filePath(userId, name) == <<userId, "/">> \o name

\* supabase.storage.from('portfolio_uploads').getPublicUrl(filePath)
PublicBase == "https://project.supabase.co/storage/v1/object/public/portfolio_uploads/"
getPublicUrl(path) == <<PublicBase>> \o path

\* the object a public URL of the bucket points at
KeyOfUrl(url) == Tail(url)
IsPublicUrl(url) == url # EmptyStr /\ Head(url) = PublicBase

\* String.prototype.toLowerCase, token by token: the tokens of the model
\* that hold capital letters, and what they turn into
LowerToken(tok) ==
    CASE tok = "PNG" -> "png"
      [] tok = "Pdf" -> "pdf"
      [] tok = "TXT" -> "txt"
      [] tok = "README" -> "readme"
      [] OTHER -> tok
toLowerCase(s) == [i \in 1..Len(s) |-> LowerToken(s[i])]

\* ['jpg', 'jpeg', 'png', 'gif', 'webp']
ImageExts == {<<"jpg">>, <<"jpeg">>, <<"png">>, <<"gif">>, <<"webp">>}

\* const ext = fileName.split('.').pop()?.toLowerCase() || ''
getFileType(name) ==
    LET ext == toLowerCase(fileExt(name))
    IN  IF ext \in ImageExts THEN "image"
        ELSE IF ext = <<"pdf">> THEN "pdf"
        ELSE "link"

\* the names getFileType is applied to: up to MaxNameLen tokens
MaxNameLen == 3
NameTokens == {"notes", ".", "png", "PNG", "pdf", "Pdf", "jpeg", "TXT"}
FileNames == UNION {[1..n -> NameTokens] : n \in 1..MaxNameLen}
NotTyped == "none"

\* getFileType(fileName) is called
Classify ==
    /\ fileTypeCall.kind = NotTyped
    /\ fileTypeCall' = [fileTypeCall EXCEPT !.kind = getFileType(fileTypeCall.fileName)]
    /\ UNCHANGED <<user, ratingVars, upvoteVars, avgVars, portfolioVars>>

InitFileType ==
    fileTypeCall \in [fileName : FileNames, kind : {NotTyped}]

FileTypeOff ==
    fileTypeCall = [fileName |-> <<"notes">>, kind |-> NotTyped]

\* answers of prompt('Enter the external link URL:'): a URL, '' or null
PromptNull == <<"null">>
Urls == {<<"https://example.com/demo">>}
PromptAnswers == Urls \cup {EmptyStr, PromptNull}
\* if (url)
Truthy(s) == s # EmptyStr /\ s # PromptNull

\* the text inputs of the form (both `required`; image_url has no input)
\* and what the user types into them
TextFields == {"title", "description"}
Texts == {"", "x"}
\* portfolioTags (one of the eight), and the four toggled where the model
\* looks at the tags alone
PortfolioTags == {"Art"}
TagChoices == {"Game Dev", "Art", "Music", "Code"}
\* tags: [] as string[]
EmptyTags == << >>

\* useState({title: '', description: '', image_url: '', file_url: '', ...})
EmptyForm ==
    [title |-> "", description |-> "", image_url |-> "",
     file_url |-> EmptyStr, file_type |-> "", file_name |-> EmptyStr,
     tags |-> EmptyTags]

\* useState<PortfolioItem[]>([])
EmptyItems == [i \in {} |-> EmptyForm]

\* no upload, no remove, no insert or update under way
NoUpload == [file |-> EmptyStr]
NoDelete == [sent |-> FALSE]
NoSubmit == [sent |-> FALSE]
NoStep == [name |-> "none", key |-> EmptyStr, file_type |-> ""]

\* const { user } = useAuth()
ProfileUser == user[ProfileClient]

\* upload / remove on the bucket
Put(objects, key, file) == [k \in DOMAIN objects \cup {key} |->
                               IF k = key THEN file ELSE objects[k]]
Remove(objects, key) == [k \in DOMAIN objects \ {key} |-> objects[k]]

\* the Work Sample section shows the upload controls or the attachment
Attached(form) == form.file_url # EmptyStr

\* file_url: '', file_type: '', file_name: ''
ClearedFile(form) ==
    [form EXCEPT !.file_url = EmptyStr, !.file_type = "", !.file_name = EmptyStr]

\* round trips that handlers of the page are waiting for
InFlight ==
    (IF uploadReq.file # EmptyStr THEN 1 ELSE 0)
        + (IF deleteReq.sent THEN 1 ELSE 0)
        + (IF submitReq.sent THEN 1 ELSE 0)
        + Cardinality(itemDeleteReqs)

\* selects of loadPortfolioItems under way, and requests that will send one
ItemLoadsInFlight ==
    itemLoadsPending + Cardinality(itemLoadsReady)
        + Cardinality(itemDeleteReqs) + (IF submitReq.sent THEN 1 ELSE 0)

PortfolioStep(step) ==
    /\ lastStep' = step
    /\ UNCHANGED <<user, ratingVars, upvoteVars, avgVars, fileTypeVars>>

(***************************************************************************)
(* The attachment of the draft                                             *)
(***************************************************************************)
\* onChange of the title, description and image URL inputs
SetText(f, v) ==
    /\ showPortfolioForm
    /\ portfolioFormData[f] # v
    /\ portfolioFormData' = [portfolioFormData EXCEPT ![f] = v]
    /\ UNCHANGED <<now, bucket, portfolioTbl, nextId, portfolioItems,
                   showPortfolioForm, editingItem,
                   uploadingFile, uploadReq, deleteReq, submitReq,
                   itemDeleteReqs, itemLoadsPending, itemLoadsReady>>
    /\ PortfolioStep(NoStep)

\* prev.tags.includes(tag) ? prev.tags.filter((t) => t !== tag)
\*                         : [...prev.tags, tag]
includes(tags, tag) == \E i \in 1..Len(tags) : tags[i] = tag
toggleTag_append(tags, tag) == Append(tags, tag)
toggleTag(tags, tag) ==
    IF includes(tags, tag)
    THEN LET differs(t) == t # tag IN SelectSeq(tags, differs)
    ELSE Append(tags, tag)

\* setPortfolioFormData((prev) => ({...prev, tags: ...})): the update is
\* applied to the draft as it is when the click is handled
togglePortfolioTag(tag) ==
    /\ showPortfolioForm
    /\ portfolioFormData' =
           [portfolioFormData EXCEPT !.tags = toggleTag(@, tag)]
    /\ UNCHANGED <<now, bucket, portfolioTbl, nextId, portfolioItems,
                   showPortfolioForm, editingItem,
                   uploadingFile, uploadReq, deleteReq, submitReq,
                   itemDeleteReqs, itemLoadsPending, itemLoadsReady>>
    /\ PortfolioStep(NoStep)

\* handleFileUpload up to `await supabase.storage...upload(filePath, file)`;
\* millis is what Date.now() returns, never less than at the upload before
handleFileUpload(file, fileType, millis) ==
    /\ showPortfolioForm
    /\ ~Attached(portfolioFormData)
    /\ ~uploadingFile
    /\ ProfileUser # NoUser
    /\ Cardinality(DOMAIN bucket) < MaxObjects
    /\ InFlight < MaxInFlight
    /\ millis >= now
    /\ now' = millis
    /\ uploadingFile' = TRUE
    /\ uploadReq' = [file |-> file, fileType |-> fileType,
                     key |-> filePath(ProfileUser,
                                      fileName(ProfileUser, millis, file)),
                     form |-> portfolioFormData]
    /\ UNCHANGED <<bucket, portfolioTbl, nextId, portfolioItems,
                   showPortfolioForm, editingItem, portfolioFormData,
                   deleteReq, submitReq,
                   itemDeleteReqs, itemLoadsPending, itemLoadsReady>>
    /\ PortfolioStep(NoStep)

\* upload(..., {upsert: false}) stores the file; the handler sets the draft
UploadOk ==
    /\ uploadReq.file # EmptyStr
    /\ uploadReq.key \notin DOMAIN bucket
    /\ bucket' = Put(bucket, uploadReq.key, uploadReq.file)
    /\ portfolioFormData' =
           [uploadReq.form EXCEPT !.file_url = getPublicUrl(uploadReq.key),
                                  !.file_type = uploadReq.fileType,
                                  !.file_name = uploadReq.file]
    /\ uploadingFile' = FALSE
    /\ uploadReq' = NoUpload
    /\ UNCHANGED <<now, portfolioTbl, nextId, portfolioItems,
                   showPortfolioForm, editingItem, deleteReq, submitReq,
                   itemDeleteReqs, itemLoadsPending, itemLoadsReady>>
    /\ PortfolioStep([name |-> "uploaded", key |-> uploadReq.key,
                      file_type |-> uploadReq.fileType])

\* the upload is refused (the key exists) or does not get through:
\* `if (uploadError) throw uploadError`, caught in handleFileUpload
UploadFail_overwrite ==
    /\ uploadReq.file # EmptyStr
    /\ bucket' = Put(bucket, uploadReq.key, uploadReq.file)
    /\ uploadingFile' = FALSE
    /\ uploadReq' = NoUpload
    /\ UNCHANGED <<now, portfolioTbl, nextId, portfolioItems,
                   showPortfolioForm, editingItem, portfolioFormData,
                   deleteReq, submitReq,
                   itemDeleteReqs, itemLoadsPending, itemLoadsReady>>
    /\ PortfolioStep([name |-> "upload_failed", key |-> uploadReq.key,
                      file_type |-> uploadReq.fileType])
UploadFail ==
    /\ uploadReq.file # EmptyStr
    /\ uploadingFile' = FALSE
    /\ uploadReq' = NoUpload
    /\ UNCHANGED <<now, bucket, portfolioTbl, nextId, portfolioItems,
                   showPortfolioForm, editingItem, portfolioFormData,
                   deleteReq, submitReq,
                   itemDeleteReqs, itemLoadsPending, itemLoadsReady>>
    /\ PortfolioStep([name |-> "upload_failed", key |-> uploadReq.key,
                      file_type |-> uploadReq.fileType])

\* handleAddLink: prompt() blocks the page, so the draft it spreads is current
handleAddLink_reset(url) ==
    /\ showPortfolioForm
    /\ ~Attached(portfolioFormData)
    /\ portfolioFormData' =
           IF Truthy(url)
           THEN [EmptyForm EXCEPT !.file_url = url, !.file_type = "link",
                                  !.file_name = url]
           ELSE portfolioFormData
    /\ UNCHANGED <<now, bucket, portfolioTbl, nextId, portfolioItems,
                   showPortfolioForm, editingItem,
                   uploadingFile, uploadReq, deleteReq, submitReq,
                   itemDeleteReqs, itemLoadsPending, itemLoadsReady>>
    /\ PortfolioStep([name |-> "handleAddLink", key |-> EmptyStr,
                      file_type |-> IF Truthy(url) THEN "link" ELSE ""])
handleAddLink(url) ==
    /\ showPortfolioForm
    /\ ~Attached(portfolioFormData)
    /\ portfolioFormData' =
           IF Truthy(url)
           THEN [portfolioFormData EXCEPT !.file_url = url,
                                          !.file_type = "link",
                                          !.file_name = url]
           ELSE portfolioFormData
    /\ UNCHANGED <<now, bucket, portfolioTbl, nextId, portfolioItems,
                   showPortfolioForm, editingItem,
                   uploadingFile, uploadReq, deleteReq, submitReq,
                   itemDeleteReqs, itemLoadsPending, itemLoadsReady>>
    /\ PortfolioStep([name |-> "handleAddLink", key |-> EmptyStr,
                      file_type |-> IF Truthy(url) THEN "link" ELSE ""])

\* if (portfolioFormData.file_name && portfolioFormData.file_type !== 'link' && user)
NeedsStorageDelete_always(form) == TRUE
NeedsStorageDelete(form) ==
    /\ form.file_name # EmptyStr
    /\ form.file_type # "link"
    /\ ProfileUser # NoUser

\* handleClearFile up to `await supabase.storage...remove([filePath])`, or to
\* its end when it has nothing to remove
handleClearFile ==
    /\ showPortfolioForm
    /\ Attached(portfolioFormData)
    /\ ~deleteReq.sent
    /\ IF NeedsStorageDelete(portfolioFormData)
       THEN /\ InFlight < MaxInFlight
            /\ deleteReq' =
                   [key |-> filePath(ProfileUser, portfolioFormData.file_name),
                    form |-> portfolioFormData, sent |-> TRUE]
            /\ UNCHANGED portfolioFormData
            /\ PortfolioStep([name |-> "handleClearFile",
                              key |-> deleteReq'.key,
                              file_type |-> portfolioFormData.file_type])
       ELSE /\ portfolioFormData' = ClearedFile(portfolioFormData)
            /\ UNCHANGED deleteReq
            /\ PortfolioStep([name |-> "handleClearFile", key |-> EmptyStr,
                              file_type |-> portfolioFormData.file_type])
    /\ UNCHANGED <<now, bucket, portfolioTbl, nextId, portfolioItems,
                   showPortfolioForm, editingItem,
                   uploadingFile, uploadReq, submitReq,
                   itemDeleteReqs, itemLoadsPending, itemLoadsReady>>

\* remove([filePath]) answers without an error, whether or not the key names
\* an object; the handler clears the attachment of the draft it was created with
DeleteOk ==
    /\ deleteReq.sent
    /\ bucket' = Remove(bucket, deleteReq.key)
    /\ portfolioFormData' = ClearedFile(deleteReq.form)
    /\ deleteReq' = NoDelete
    /\ UNCHANGED <<now, portfolioTbl, nextId, portfolioItems,
                   showPortfolioForm, editingItem,
                   uploadingFile, uploadReq, submitReq,
                   itemDeleteReqs, itemLoadsPending, itemLoadsReady>>
    /\ PortfolioStep([name |-> "deleted", key |-> deleteReq.key,
                      file_type |-> deleteReq.form.file_type])

\* `if (error) throw error`, caught and logged in handleClearFile
DeleteFail_keep ==
    /\ deleteReq.sent
    /\ deleteReq' = NoDelete
    /\ UNCHANGED <<now, bucket, portfolioTbl, nextId, portfolioItems,
                   showPortfolioForm, editingItem, portfolioFormData,
                   uploadingFile, uploadReq, submitReq,
                   itemDeleteReqs, itemLoadsPending, itemLoadsReady>>
    /\ PortfolioStep([name |-> "delete_failed", key |-> deleteReq.key,
                      file_type |-> deleteReq.form.file_type])
DeleteFail ==
    /\ deleteReq.sent
    /\ portfolioFormData' = ClearedFile(deleteReq.form)
    /\ deleteReq' = NoDelete
    /\ UNCHANGED <<now, bucket, portfolioTbl, nextId, portfolioItems,
                   showPortfolioForm, editingItem,
                   uploadingFile, uploadReq, submitReq,
                   itemDeleteReqs, itemLoadsPending, itemLoadsReady>>
    /\ PortfolioStep([name |-> "delete_failed", key |-> deleteReq.key,
                      file_type |-> deleteReq.form.file_type])

(***************************************************************************)
(* The portfolio items                                                     *)
(***************************************************************************)
\* the Add Item / Create Your First Portfolio Item buttons
AddItem ==
    /\ ~showPortfolioForm
    /\ editingItem' = NoItem
    /\ portfolioFormData' = EmptyForm
    /\ showPortfolioForm' = TRUE
    /\ UNCHANGED <<now, bucket, portfolioTbl, nextId, portfolioItems,
                   uploadingFile, uploadReq, deleteReq, submitReq,
                   itemDeleteReqs, itemLoadsPending, itemLoadsReady>>
    /\ PortfolioStep(NoStep)

\* the X button of the form
CloseForm ==
    /\ showPortfolioForm
    /\ showPortfolioForm' = FALSE
    /\ editingItem' = NoItem
    /\ UNCHANGED <<now, bucket, portfolioTbl, nextId, portfolioItems,
                   portfolioFormData,
                   uploadingFile, uploadReq, deleteReq, submitReq,
                   itemDeleteReqs, itemLoadsPending, itemLoadsReady>>
    /\ PortfolioStep(NoStep)

handleEditItem(id) ==
    /\ id \in DOMAIN portfolioItems
    /\ editingItem' = id
    /\ portfolioFormData' = portfolioItems[id]
    /\ showPortfolioForm' = TRUE
    /\ UNCHANGED <<now, bucket, portfolioTbl, nextId, portfolioItems,
                   uploadingFile, uploadReq, deleteReq, submitReq,
                   itemDeleteReqs, itemLoadsPending, itemLoadsReady>>
    /\ PortfolioStep(NoStep)

\* handlePortfolioSubmit up to `await supabase.from('portfolio_items')...`;
\* the title and description inputs are `required`
handlePortfolioSubmit ==
    /\ showPortfolioForm
    /\ \A f \in TextFields : portfolioFormData[f] # ""
    /\ ProfileUser # NoUser
    /\ ~submitReq.sent
    /\ editingItem = NoItem => nextId < MaxItems
    /\ InFlight < MaxInFlight
    /\ ItemLoadsInFlight < MaxLoads
    /\ submitReq' = [editingItem |-> editingItem, form |-> portfolioFormData,
                     sent |-> TRUE]
    /\ UNCHANGED <<now, bucket, portfolioTbl, nextId, portfolioItems,
                   showPortfolioForm, editingItem, portfolioFormData,
                   uploadingFile, uploadReq, deleteReq,
                   itemDeleteReqs, itemLoadsPending, itemLoadsReady>>
    /\ PortfolioStep(NoStep)

\* the row is written (an update of a row that is gone changes nothing and
\* gives no error); the handler resets the form and calls loadPortfolioItems.
\* The reset leaves file_url, file_type and file_name undefined, which the
\* form reads as empty.
SubmitOk ==
    /\ submitReq.sent
    /\ IF submitReq.editingItem # NoItem
       THEN /\ portfolioTbl' =
                   [i \in DOMAIN portfolioTbl |->
                       IF i = submitReq.editingItem THEN submitReq.form
                       ELSE portfolioTbl[i]]
            /\ UNCHANGED nextId
       ELSE /\ portfolioTbl' = Put(portfolioTbl, nextId + 1, submitReq.form)
            /\ nextId' = nextId + 1
    /\ portfolioFormData' = EmptyForm
    /\ editingItem' = NoItem
    /\ showPortfolioForm' = FALSE
    /\ submitReq' = NoSubmit
    /\ itemLoadsPending' = itemLoadsPending + 1
    /\ UNCHANGED <<now, bucket, portfolioItems,
                   uploadingFile, uploadReq, deleteReq,
                   itemDeleteReqs, itemLoadsReady>>
    /\ PortfolioStep([NoStep EXCEPT !.name = "submitted"])

\* `if (error) throw error`, caught and logged
SubmitFail_reset ==
    /\ submitReq.sent
    /\ submitReq' = NoSubmit
    /\ portfolioFormData' = EmptyForm
    /\ editingItem' = NoItem
    /\ showPortfolioForm' = FALSE
    /\ itemLoadsPending' = itemLoadsPending + 1
    /\ UNCHANGED <<now, bucket, portfolioTbl, nextId, portfolioItems,
                   uploadingFile, uploadReq, deleteReq,
                   itemDeleteReqs, itemLoadsReady>>
    /\ PortfolioStep([NoStep EXCEPT !.name = "submit_failed"])
SubmitFail ==
    /\ submitReq.sent
    /\ submitReq' = NoSubmit
    /\ UNCHANGED <<now, bucket, portfolioTbl, nextId, portfolioItems,
                   showPortfolioForm, editingItem, portfolioFormData,
                   uploadingFile, uploadReq, deleteReq,
                   itemDeleteReqs, itemLoadsPending, itemLoadsReady>>
    /\ PortfolioStep([NoStep EXCEPT !.name = "submit_failed"])

\* handleDeletePortfolioItem up to `await ...delete().eq('id', id)`
handleDeletePortfolioItem(id) ==
    /\ id \in DOMAIN portfolioItems
    /\ id \notin itemDeleteReqs
    /\ InFlight < MaxInFlight
    /\ ItemLoadsInFlight < MaxLoads
    /\ itemDeleteReqs' = itemDeleteReqs \cup {id}
    /\ UNCHANGED <<now, bucket, portfolioTbl, nextId, portfolioItems,
                   showPortfolioForm, editingItem, portfolioFormData,
                   uploadingFile, uploadReq, deleteReq, submitReq,
                   itemLoadsPending, itemLoadsReady>>
    /\ PortfolioStep(NoStep)

\* what the last step says of a deleted row: the object its file_url names
DeletedItemStep(id) ==
    IF id \in DOMAIN portfolioTbl /\ IsPublicUrl(portfolioTbl[id].file_url)
    THEN [name |-> "item_deleted", key |-> KeyOfUrl(portfolioTbl[id].file_url),
          file_type |-> portfolioTbl[id].file_type]
    ELSE [NoStep EXCEPT !.name = "item_deleted"]

\* the row is deleted; the handler calls loadPortfolioItems and nothing else
ItemDeleteOk(id) ==
    /\ id \in itemDeleteReqs
    /\ portfolioTbl' = Remove(portfolioTbl, id)
    /\ itemDeleteReqs' = itemDeleteReqs \ {id}
    /\ itemLoadsPending' = itemLoadsPending + 1
    /\ UNCHANGED <<now, bucket, nextId, portfolioItems,
                   showPortfolioForm, editingItem, portfolioFormData,
                   uploadingFile, uploadReq, deleteReq, submitReq,
                   itemLoadsReady>>
    /\ PortfolioStep(DeletedItemStep(id))

ItemDeleteFail(id) ==
    /\ id \in itemDeleteReqs
    /\ itemDeleteReqs' = itemDeleteReqs \ {id}
    /\ UNCHANGED <<now, bucket, portfolioTbl, nextId, portfolioItems,
                   showPortfolioForm, editingItem, portfolioFormData,
                   uploadingFile, uploadReq, deleteReq, submitReq,
                   itemLoadsPending, itemLoadsReady>>
    /\ PortfolioStep(NoStep)

\* loadPortfolioItems: the select reads the table, its answer arrives later
ItemLoadServe ==
    /\ itemLoadsPending > 0
    /\ itemLoadsPending' = itemLoadsPending - 1
    /\ itemLoadsReady' = itemLoadsReady \cup {portfolioTbl}
    /\ UNCHANGED <<now, bucket, portfolioTbl, nextId, portfolioItems,
                   showPortfolioForm, editingItem, portfolioFormData,
                   uploadingFile, uploadReq, deleteReq, submitReq,
                   itemDeleteReqs>>
    /\ PortfolioStep(NoStep)

ItemLoadFail ==
    /\ itemLoadsPending > 0
    /\ itemLoadsPending' = itemLoadsPending - 1
    /\ UNCHANGED <<now, bucket, portfolioTbl, nextId, portfolioItems,
                   showPortfolioForm, editingItem, portfolioFormData,
                   uploadingFile, uploadReq, deleteReq, submitReq,
                   itemDeleteReqs, itemLoadsReady>>
    /\ PortfolioStep(NoStep)

\* setPortfolioItems(data || [])
ItemLoadDeliver(data) ==
    /\ data \in itemLoadsReady
    /\ itemLoadsReady' = itemLoadsReady \ {data}
    /\ portfolioItems' = data
    /\ UNCHANGED <<now, bucket, portfolioTbl, nextId,
                   showPortfolioForm, editingItem, portfolioFormData,
                   uploadingFile, uploadReq, deleteReq, submitReq,
                   itemDeleteReqs, itemLoadsPending>>
    /\ PortfolioStep(NoStep)

\* the profile page after its first render: useEffect has sent the select
InitPortfolio ==
    /\ now = 0
    /\ bucket = [k \in {} |-> EmptyStr]
    /\ portfolioTbl = EmptyItems
    /\ nextId = 0
    /\ portfolioItems = EmptyItems
    /\ showPortfolioForm = FALSE
    /\ editingItem = NoItem
    /\ portfolioFormData = EmptyForm
    /\ uploadingFile = FALSE
    /\ uploadReq = NoUpload
    /\ deleteReq = NoDelete
    /\ submitReq = NoSubmit
    /\ itemDeleteReqs = {}
    /\ itemLoadsPending = 1
    /\ itemLoadsReady = {}
    /\ lastStep = NoStep

\* the profile page is not shown
PortfolioOff ==
    /\ now = 0
    /\ bucket = [k \in {} |-> EmptyStr]
    /\ portfolioTbl = EmptyItems
    /\ nextId = 0
    /\ portfolioItems = EmptyItems
    /\ showPortfolioForm = FALSE
    /\ editingItem = NoItem
    /\ portfolioFormData = EmptyForm
    /\ uploadingFile = FALSE
    /\ uploadReq = NoUpload
    /\ deleteReq = NoDelete
    /\ submitReq = NoSubmit
    /\ itemDeleteReqs = {}
    /\ itemLoadsPending = 0
    /\ itemLoadsReady = {}
    /\ lastStep = NoStep

(***************************************************************************)
(* Specifications                                                          *)
(***************************************************************************)
Init ==
    /\ user \in Sessions
    /\ InitRating({DefaultRating})
    /\ UpvoteOff
    /\ AvgOff
    /\ PortfolioOff
    /\ FileTypeOff

Next ==
    \/ \E c \in Clients, p \in Projects : SelectProject(c, p)
    \/ \E c \in Clients, v \in RatingChoices : SetRating(c, v)
    \/ \E c \in Clients : CancelFeedback(c)
    \/ \E c \in Clients : FeedbackSubmit(c)
    \/ \E c \in Clients : InsertOk(c)
    \/ \E c \in Clients : InsertFail(c)
    \/ \E c \in Clients : UpdateOk(c)
    \/ \E c \in Clients : UpdateFail(c)
    \/ \E c \in Clients : LoadServe(c)
    \/ \E c \in Clients : LoadFail(c)
    \/ \E c \in Clients : \E data \in loadsReady[c] : LoadDeliver(c, data)

Spec == Init /\ [][Next]_vars

\* the users click the first and the last star only
NextStars ==
    \/ \E c \in Clients, p \in Projects : SelectProject(c, p)
    \/ \E c \in Clients, v \in {MinRating, MaxRating} : SetRating(c, v)
    \/ \E c \in Clients : CancelFeedback(c)
    \/ \E c \in Clients : FeedbackSubmit(c)
    \/ \E c \in Clients : InsertOk(c)
    \/ \E c \in Clients : InsertFail(c)
    \/ \E c \in Clients : UpdateOk(c)
    \/ \E c \in Clients : UpdateFail(c)
    \/ \E c \in Clients : LoadServe(c)
    \/ \E c \in Clients : LoadFail(c)
    \/ \E c \in Clients : \E data \in loadsReady[c] : LoadDeliver(c, data)

SpecStars == Init /\ [][NextStars]_vars

\* the feedback form holds any of the integers next to the stars' range;
\* one client is signed in (the repository refuses each insert by itself)
InitRaw ==
    /\ user \in {s \in Sessions : s["c2"] = NoUser}
    /\ InitRating({DefaultRating} \cup BadRatings)
    /\ UpvoteOff
    /\ AvgOff
    /\ PortfolioOff
    /\ FileTypeOff

SpecRaw == InitRaw /\ [][Next]_vars

InitUpvoteSpec ==
    /\ user \in Sessions
    /\ RatingOff
    /\ InitUpvote
    /\ AvgOff
    /\ PortfolioOff
    /\ FileTypeOff

NextUpvote ==
    \/ \E c \in Clients, i \in Items : Upvote(c, i)
    \/ \E q \in upReqs : UpvoteOk(q)
    \/ \E q \in upReqs : UpvoteFail(q)
    \/ \E c \in Clients : ListLoadServe(c)
    \/ \E c \in Clients : ListLoadFail(c)
    \/ \E c \in Clients : \E data \in listReady[c] : ListLoadDeliver(c, data)

SpecUpvote == InitUpvoteSpec /\ [][NextUpvote]_vars

\* the same lists when every update and every select succeeds
NextRefetch ==
    \/ \E c \in Clients, i \in Items : Upvote(c, i)
    \/ \E q \in upReqs : UpvoteOk(q)
    \/ \E c \in Clients : ListLoadServe(c)
    \/ \E c \in Clients : \E data \in listReady[c] : ListLoadDeliver(c, data)

SpecRefetch == InitUpvoteSpec /\ [][NextRefetch]_vars

InitAvgSpec ==
    /\ user = [c \in Clients |-> NoUser]
    /\ RatingOff
    /\ UpvoteOff
    /\ InitAvg
    /\ PortfolioOff
    /\ FileTypeOff

NextAvg == Render

SpecAvg == InitAvgSpec /\ [][NextAvg]_vars

InitFileTypeSpec ==
    /\ user = [c \in Clients |-> NoUser]
    /\ RatingOff
    /\ UpvoteOff
    /\ AvgOff
    /\ PortfolioOff
    /\ InitFileType

NextFileType == Classify

SpecFileType == InitFileTypeSpec /\ [][NextFileType]_vars

InitPortfolioSpec ==
    /\ user = ProfileSession
    /\ RatingOff
    /\ UpvoteOff
    /\ AvgOff
    /\ InitPortfolio
    /\ FileTypeOff

\* one stay on the form: the draft is opened once and worked on (the select
\* sent by the first render is not looked at)
NextDraft ==
    \/ AddItem
    \/ \E f \in TextFields, v \in Texts : SetText(f, v)
    \/ \E tag \in PortfolioTags : togglePortfolioTag(tag)
    \/ \E pick \in Picks, millis \in 0..MaxMillis :
           handleFileUpload(pick[1], pick[2], millis)
    \/ UploadOk
    \/ UploadFail
    \/ \E url \in PromptAnswers : handleAddLink(url)
    \/ handleClearFile
    \/ DeleteOk
    \/ DeleteFail

SpecDraft == InitPortfolioSpec /\ [][NextDraft]_vars

\* the tag buttons of the form
NextTags ==
    \/ AddItem
    \/ \E f \in TextFields, v \in Texts : SetText(f, v)
    \/ \E tag \in TagChoices : togglePortfolioTag(tag)

SpecTags == InitPortfolioSpec /\ [][NextTags]_vars

\* the form and the list of items, without attachments
NextSubmit ==
    \/ AddItem
    \/ CloseForm
    \/ \E f \in TextFields, v \in Texts : SetText(f, v)
    \/ \E tag \in PortfolioTags : togglePortfolioTag(tag)
    \/ \E id \in DOMAIN portfolioItems : handleEditItem(id)
    \/ handlePortfolioSubmit
    \/ SubmitOk
    \/ SubmitFail
    \/ ItemLoadServe
    \/ ItemLoadFail
    \/ \E data \in itemLoadsReady : ItemLoadDeliver(data)

SpecSubmit == InitPortfolioSpec /\ [][NextSubmit]_vars

\* the whole page, with a user who fills in the form and attaches one file
\* or link at a time
NextPortfolio ==
    \/ AddItem
    \/ CloseForm
    \/ \E f \in TextFields : SetText(f, "x")
    \/ \E pick \in ItemPicks, millis \in 0..MaxMillis :
           handleFileUpload(pick[1], pick[2], millis)
    \/ UploadOk
    \/ UploadFail
    \/ \E url \in Urls : handleAddLink(url)
    \/ handleClearFile
    \/ DeleteOk
    \/ DeleteFail
    \/ \E id \in DOMAIN portfolioItems : handleEditItem(id)
    \/ handlePortfolioSubmit
    \/ SubmitOk
    \/ SubmitFail
    \/ \E id \in DOMAIN portfolioItems : handleDeletePortfolioItem(id)
    \/ \E id \in itemDeleteReqs : ItemDeleteOk(id)
    \/ \E id \in itemDeleteReqs : ItemDeleteFail(id)
    \/ ItemLoadServe
    \/ ItemLoadFail
    \/ \E data \in itemLoadsReady : ItemLoadDeliver(data)

SpecPortfolio == InitPortfolioSpec /\ [][NextPortfolio]_vars

\* the whole page, with a user who uploads a file named like a stored object
NextRecord ==
    \/ AddItem
    \/ CloseForm
    \/ \E f \in TextFields : SetText(f, "x")
    \/ \E pick \in RecordPicks, millis \in 0..MaxMillis :
           handleFileUpload(pick[1], pick[2], millis)
    \/ UploadOk
    \/ UploadFail
    \/ \E url \in Urls : handleAddLink(url)
    \/ handleClearFile
    \/ DeleteOk
    \/ DeleteFail
    \/ \E id \in DOMAIN portfolioItems : handleEditItem(id)
    \/ handlePortfolioSubmit
    \/ SubmitOk
    \/ SubmitFail
    \/ \E id \in DOMAIN portfolioItems : handleDeletePortfolioItem(id)
    \/ \E id \in itemDeleteReqs : ItemDeleteOk(id)
    \/ \E id \in itemDeleteReqs : ItemDeleteFail(id)
    \/ ItemLoadServe
    \/ ItemLoadFail
    \/ \E data \in itemLoadsReady : ItemLoadDeliver(data)

SpecRecord == InitPortfolioSpec /\ [][NextRecord]_vars

(***************************************************************************)
(* Properties                                                              *)
(***************************************************************************)
\* c is the only client signed in
OnlyClient(c) ==
    /\ user[c] # NoUser
    /\ \A d \in Clients \ {c} : user[d] = NoUser

\* C1: in every reachable state each project's stored rating_sum and
\* rating_count equal the sum and the number of its project_feedback rows.
C1_AggregateEqualsFeedback ==
    \A p \in Projects : projectsTbl[p] = FeedbackTotals(p)

\* C2: a completed handleFeedbackSubmit with rating r, of any signed-in
\* user, raises the stored rating_count by 1 and the stored rating_sum by r.
\* Stated for a client that is alone, so that the values stored before the
\* submit are the ones stored when its update resolves.
C2_SubmitAddsItsRating ==
    [][\A c \in Clients :
          (/\ OnlyClient(c)
           /\ pcF[c] = "update"
           /\ pcF'[c] = "idle"
           /\ lastWrite' # "update_error")
          => projectsTbl'[call[c].project_id] =
                 RatedProject(projectsTbl[call[c].project_id], call[c].rating)]_vars

\* C3: when a single client, the project's creator, submits ratings one
\* after another, every submit whose update is applied takes the stored
\* aggregate from the totals of the earlier feedback rows to the totals of
\* all rows, so that r1..rn end at rating_sum = r1+...+rn, rating_count = n,
\* whether or not the re-fetches of the earlier submits have resolved.
C3_SequentialSubmitsAddUp ==
    [][\A c \in Clients :
          (/\ OnlyClient(c)
           /\ pcF[c] = "update"
           /\ user[c] = creator_id(call[c].project_id)
           /\ lastWrite' = "updated"
           /\ RatedProject(projectsTbl[call[c].project_id], call[c].rating) =
                  FeedbackTotals(call[c].project_id))
          => projectsTbl'[call[c].project_id] = FeedbackTotals(call[c].project_id)]_vars

\* C4: the aggregate an applied update writes is the repository's
\* rating_sum / rating_count after the insert of that submit plus the rating,
\* not the list's.  Stated for a client that is alone, so that the repository
\* row is the same from the insert to the update.
C4_UpdateUsesRepositoryValue ==
    [][\A c \in Clients :
          (/\ OnlyClient(c)
           /\ pcF[c] = "update"
           /\ pcF'[c] = "idle"
           /\ lastWrite' = "updated")
          => LET id == call[c].project_id
             IN  /\ projectsTbl'[id].rating_sum =
                        projectsTbl[id].rating_sum + call[c].rating
                 /\ projectsTbl'[id].rating_count = projectsTbl[id].rating_count + 1]_vars

\* C5: when the update that follows a successful feedback insert fails (it
\* reports an error, or the policy leaves the row alone), the feedback row
\* stays stored, the project's aggregate is unchanged and the handler is
\* over: nothing is rolled back and the update is not sent again.  No step
\* ever removes a feedback row.
C5_FailedUpdateKeepsFeedback ==
    [][/\ \A row \in BagToSet(feedbackTbl) :
              CopiesIn(row, feedbackTbl') >= CopiesIn(row, feedbackTbl)
       /\ \A c \in Clients :
              (/\ pcF[c] = "update"
               /\ pcF'[c] # "update"
               /\ lastWrite' \in {"update_error", "update_denied"})
              => /\ feedbackTbl' = feedbackTbl
                 /\ BagIn(FeedbackRow(call[c].project_id, user[c], call[c].rating),
                          feedbackTbl')
                 /\ projectsTbl' = projectsTbl
                 /\ pcF'[c] = "idle"
                 /\ call'[c] = NoCall]_vars

\* an update has failed and a project has more feedback rows than its
\* rating_count says
C5_Witness ==
    /\ lastWrite = "update_error"
    /\ \E p \in Projects :
           FeedbackTotals(p).rating_count > projectsTbl[p].rating_count

\* C6: a submit whose rating is outside 1..5 creates no project_feedback row
\* and leaves every project's rating_sum and rating_count as they are; its
\* insert is refused and no update follows.
C6_OutOfRangeRatingWritesNothing ==
    [][/\ \A row \in BagToSet(feedbackTbl') : row.rating \in Ratings
       /\ \A c \in Clients :
              (/\ pcF[c] = "insert"
               /\ call[c].rating \notin Ratings
               /\ pcF'[c] # "insert")
              => /\ feedbackTbl' = feedbackTbl
                 /\ projectsTbl' = projectsTbl
                 /\ pcF'[c] = "idle"
                 /\ lastWrite' = "insert_error"]_vars

\* the only client has submitted a rating outside 1..5 and the insert failed
C6_Witness ==
    \E c \in Clients :
        /\ OnlyClient(c)
        /\ rating[c] \in BadRatings
        /\ selectedProject[c] # Null
        /\ pcF[c] = "idle"
        /\ lastWrite = "insert_error"

\* C7: getAverageRating gives 0 when rating_count = 0, whatever rating_sum
\* is, and otherwise the tenth nearest to rating_sum / rating_count (the
\* larger of two equally near).
C7_AverageIsRoundedQuotient ==
    avgOut # NotRendered =>
        LET s == avgProject.rating_sum
            n == avgProject.rating_count
        IN  /\ n = 0 => avgOut = 0
            /\ n > 0 => /\ 2 * avgOut * n <= 20 * s + n
                        /\ 20 * s + n < 2 * (avgOut + 1) * n

\* rating_sum 12, rating_count 3 is shown as 4.0
C7_Witness ==
    /\ avgProject = [rating_sum |-> 12, rating_count |-> 3]
    /\ avgOut = 40

\* C8: after N >= 2 applied upvotes of one row that were all sent with the
\* same base, the stored upvotes are base + 1, less than base + N (shown for
\* the last two of them: less than base + 2).
C8_SameBaseUpvotesCountOnce ==
    \A i \in Items :
        run[i].repeated =>
            /\ upvotesTbl[i] = run[i].base + 1
            /\ upvotesTbl[i] < run[i].base + 2

\* two upvotes of one row with the same base have been applied, one after
\* the other
C8_Witness ==
    \E i \in Items : run[i].repeated /\ upvotesTbl[i] = run[i].base + 1

\* C9: a handleUpvote(id, currentUpvotes) of any signed-in user that reports
\* no error leaves the stored upvotes of row id at currentUpvotes + 1 and
\* every other row as it was; one that reports an error changes no row and
\* issues no re-fetch.
C9_UpvoteWritesCurrentPlusOne ==
    [][\A q \in upReqs :
          q \notin upReqs' =>
              /\ lastUpvote' = "ok" =>
                     upvotesTbl' = [upvotesTbl EXCEPT ![q.id] = q.currentUpvotes + 1]
              /\ lastUpvote' = "error" =>
                     upvotesTbl' = upvotesTbl /\ listPending' = listPending]_vars

\* C10: the stored upvotes of a row never decrease.
C10_UpvotesNeverDecrease ==
    [][\A i \in Items : upvotesTbl'[i] >= upvotesTbl[i]]_vars

\* C11: when handleClearFile clears a file that handleFileUpload has uploaded
\* in the same draft, the storage key it passes to remove is the key the file
\* was uploaded under, {userId}/{userId}-{millis}.{ext}: the key that the
\* draft's public URL names.
C11_ClearRemovesTheUploadedKey ==
    deleteReq.sent /\ IsPublicUrl(deleteReq.form.file_url) =>
        deleteReq.key = KeyOfUrl(deleteReq.form.file_url)

\* C12: a handleClearFile of a signed-in user sends no storage remove when
\* the draft's attachment is a link, and one when it is an image or a pdf
\* (with a file name).
C12_ClearSendsRemoveUnlessLink ==
    [][lastStep'.name = "handleClearFile" =>
          /\ portfolioFormData.file_type = "link" =>
                 deleteReq' = deleteReq /\ InFlight' = InFlight
          /\ portfolioFormData.file_type \in {"image", "pdf"}
                /\ portfolioFormData.file_name # EmptyStr =>
                 /\ ~deleteReq.sent /\ deleteReq'.sent
                 /\ InFlight' = InFlight + 1]_vars

\* the bin of a link attachment has been clicked: the draft is cleared and
\* nothing was sent
C12_Witness ==
    /\ lastStep = [name |-> "handleClearFile", key |-> EmptyStr,
                   file_type |-> "link"]
    /\ ~deleteReq.sent
    /\ ~Attached(portfolioFormData)

\* C13: when the storage remove sent by handleClearFile fails, the error
\* goes no further than the handler, the draft's file_url, file_type and
\* file_name are emptied all the same, and the bucket keeps its objects.
C13_FailedRemoveStillClearsDraft ==
    [][lastStep'.name = "delete_failed" =>
          /\ portfolioFormData'.file_url = EmptyStr
          /\ portfolioFormData'.file_type = ""
          /\ portfolioFormData'.file_name = EmptyStr
          /\ ~deleteReq'.sent
          /\ bucket' = bucket]_vars

\* a remove of a key that names an object has failed: the draft is empty
\* and the object is still stored
C13_Witness ==
    /\ lastStep.name = "delete_failed"
    /\ lastStep.key \in DOMAIN bucket
    /\ ~Attached(portfolioFormData)

\* C14: while the form stays open, the draft never goes in one step from an
\* attachment to a different attachment: a step that starts and ends with
\* an attachment ends with the one it started with, whatever the order of
\* handleFileUpload (and its answer), handleAddLink and handleClearFile.
C14_NoAttachedToAttached ==
    [][Attached(portfolioFormData) /\ Attached(portfolioFormData') =>
          /\ portfolioFormData'.file_url = portfolioFormData.file_url
          /\ portfolioFormData'.file_type = portfolioFormData.file_type
          /\ portfolioFormData'.file_name = portfolioFormData.file_name]_vars

\* C15: the step in which a storage upload is done takes the draft from no
\* attachment to an attachment, and the step in which a storage remove is
\* done takes it from an attachment to none.
C15_UploadAndRemoveOnlyOnTheirTransitions ==
    [][/\ lastStep'.name = "uploaded" =>
              ~Attached(portfolioFormData) /\ Attached(portfolioFormData')
       /\ lastStep'.name = "deleted" =>
              Attached(portfolioFormData) /\ ~Attached(portfolioFormData')]_vars

\* C16: a handleFileUpload of a signed-in user that succeeds stores the file
\* under {userId}/{userId}-{millis}.{ext}, millis being the Date.now() of
\* the call and ext the text after the last "." of the file's name, and sets
\* the draft's file_url to the public URL of that key, file_type to the kind
\* of the input used and file_name to the file's own name.  (Of a name
\* without "." the claim names no ext: there the key is only required to
\* start with {userId}/{userId}-{millis}.)
C16_UploadStoresUnderUserMillisExt ==
    [][lastStep'.name = "uploaded" =>
          LET name == uploadReq.file
              dots == {i \in 1..Len(name) : name[i] = "."}
              last == CHOOSE i \in dots : \A j \in dots : j <= i
              stem == <<ProfileUser, "/", ProfileUser, "-", ToString(now), ".">>
              key  == IF dots = {} THEN lastStep'.key
                      ELSE stem \o SubSeq(name, last + 1, Len(name))
          IN  /\ Len(key) > Len(stem)
              /\ SubSeq(key, 1, Len(stem)) = stem
              /\ key \notin DOMAIN bucket
              /\ bucket' = [k \in DOMAIN bucket \cup {key} |->
                               IF k = key THEN name ELSE bucket[k]]
              /\ portfolioFormData'.file_url = <<PublicBase>> \o key
              /\ portfolioFormData'.file_type = uploadReq.fileType
              /\ portfolioFormData'.file_name = name]_vars

\* doc.v2.pdf has been uploaded at Date.now() = 0 through the PDF input
C16_Witness ==
    /\ lastStep = [name |-> "uploaded",
                   key |-> <<"u1", "/", "u1", "-", "0", ".", "pdf">>,
                   file_type |-> "pdf"]
    /\ lastStep.key \in DOMAIN bucket
    /\ bucket[lastStep.key] = DocV2Pdf
    /\ portfolioFormData.file_name = DocV2Pdf
    /\ portfolioFormData.file_url = getPublicUrl(lastStep.key)

\* C17: when an upload fails, because it did not get through or because its
\* key names an object already, the bucket is left as it was (no object is
\* overwritten), the draft's file_url, file_type and file_name are left as
\* they were and uploadingFile is false again.
C17_FailedUploadChangesNothing ==
    [][lastStep'.name = "upload_failed" =>
          /\ bucket' = bucket
          /\ portfolioFormData'.file_url = portfolioFormData.file_url
          /\ portfolioFormData'.file_type = portfolioFormData.file_type
          /\ portfolioFormData'.file_name = portfolioFormData.file_name
          /\ uploadingFile /\ ~uploadingFile']_vars

\* an upload to a key that names an object has failed
C17_Witness ==
    /\ lastStep.name = "upload_failed"
    /\ lastStep.key \in DOMAIN bucket
    /\ ~uploadingFile

\* C18: handleAddLink with a non-empty URL sets the draft's file_type to
\* link and its file_url and file_name to the URL, sends nothing to the
\* bucket or the tables, and leaves title, description, image_url and tags
\* as they were; with an empty or cancelled prompt it leaves the whole draft
\* as it was.
C18_AddLinkTouchesOnlyTheAttachment ==
    [][lastStep'.name = "handleAddLink" =>
          /\ lastStep'.file_type = "link" =>
                 /\ portfolioFormData'.file_url \in Urls
                 /\ portfolioFormData' =
                        [portfolioFormData EXCEPT
                            !.file_type = "link",
                            !.file_url = portfolioFormData'.file_url,
                            !.file_name = portfolioFormData'.file_url]
          /\ lastStep'.file_type # "link" =>
                 portfolioFormData' = portfolioFormData
          /\ UNCHANGED <<bucket, portfolioTbl, uploadReq, deleteReq,
                         submitReq, itemDeleteReqs, itemLoadsPending,
                         itemLoadsReady>>]_vars

\* a link has been added to a draft with a title, a description and a tag
C18_Witness ==
    /\ lastStep.name = "handleAddLink"
    /\ portfolioFormData.file_type = "link"
    /\ portfolioFormData.file_url \in Urls
    /\ \A f \in TextFields : portfolioFormData[f] # ""
    /\ portfolioFormData.tags # EmptyTags

\* C19: once handleDeletePortfolioItem has deleted a row whose attachment is
\* an image or a pdf, the object that the row's file_url names is no longer
\* in the bucket.
C19_DeletedItemLosesItsObject ==
    lastStep.name = "item_deleted" /\ lastStep.file_type \in {"image", "pdf"} =>
        lastStep.key \notin DOMAIN bucket

\* C20: whenever the page has no request under way, every object of the
\* bucket is named by the file_url of a row of portfolio_items or of the
\* draft (counted here even when the form showing it is closed).
C20_NoObjectLeaked ==
    InFlight = 0 /\ itemLoadsPending = 0 /\ itemLoadsReady = {} =>
        \A key \in DOMAIN bucket :
            \/ \E id \in DOMAIN portfolioTbl :
                   portfolioTbl[id].file_url = getPublicUrl(key)
            \/ portfolioFormData.file_url = getPublicUrl(key)

\* C23: getFileType gives image for a name whose text after the last "." is,
\* in lower case, one of jpg, jpeg, png, gif, webp, pdf when it is pdf, and
\* link for every other name; a name without "." gives link.
C23_FileTypeFromExtension ==
    fileTypeCall.kind # NotTyped =>
        LET name == fileTypeCall.fileName
            dots == {i \in 1..Len(name) : name[i] = "."}
            last == CHOOSE i \in dots : \A j \in dots : j <= i
            ext  == toLowerCase(SubSeq(name, last + 1, Len(name)))
        IN  fileTypeCall.kind =
                IF dots = {} THEN "link"
                ELSE IF ext \in ImageExts THEN "image"
                ELSE IF ext = <<"pdf">> THEN "pdf"
                ELSE "link"

\* C24: the file_type an upload leaves in the draft is the kind that
\* getFileType derives from the name of the uploaded file.
C24_UploadKindFromExtension ==
    [][lastStep'.name = "uploaded" =>
          portfolioFormData'.file_type = getFileType(uploadReq.file)]_vars

\* the tags of a list, and whether it names none twice
TagSet(tags) == {tags[i] : i \in 1..Len(tags)}
NoDuplicate(tags) == \A i, j \in 1..Len(tags) : tags[i] = tags[j] => i = j

\* C27: a click on a tag button adds the tag to the draft's tags when it is
\* absent and removes it when it is present, leaves every other field of the
\* draft as it was and leaves no tag twice in the list; a second click on
\* the same button gives back the set of tags there was.
C27_ToggleKeepsSetSemantics ==
    [][showPortfolioForm /\ portfolioFormData'.tags # portfolioFormData.tags =>
          \E t \in TagChoices :
              LET old == portfolioFormData.tags
                  new == portfolioFormData'.tags
              IN  /\ TagSet(new) = IF t \in TagSet(old) THEN TagSet(old) \ {t}
                                   ELSE TagSet(old) \cup {t}
                  /\ NoDuplicate(new)
                  /\ portfolioFormData' = [portfolioFormData EXCEPT !.tags = new]
                  /\ NoDuplicate(toggleTag(new, t))
                  /\ TagSet(toggleTag(new, t)) = TagSet(old)]_vars

\* Code and then Art were toggled on in a draft with a title
C27_Witness ==
    /\ showPortfolioForm
    /\ portfolioFormData.tags = <<"Code", "Art">>
    /\ portfolioFormData.title = "x"

\* C28: in every reachable state each project's stored rating_count is at
\* most the number of its project_feedback rows and its stored rating_sum
\* at most the sum of their ratings.
C28_AggregateNeverOverCounts ==
    \A p \in Projects :
        /\ projectsTbl[p].rating_count <= FeedbackTotals(p).rating_count
        /\ projectsTbl[p].rating_sum <= FeedbackTotals(p).rating_sum

\* two clients are signed in, two ratings are stored and the update applied
\* last has left the aggregate at one of them
C28_Witness ==
    /\ \A c \in Clients : user[c] # NoUser
    /\ lastWrite = "updated"
    /\ \E p \in Projects :
           /\ FeedbackTotals(p).rating_count = 2
           /\ projectsTbl[p].rating_count = 1
           /\ projectsTbl[p].rating_sum < FeedbackTotals(p).rating_sum

\* C29: in every reachable state the rating held by each feedback form is
\* in 1..5, every project's stored pair satisfies
\* rating_count <= rating_sum <= 5 * rating_count, and so does every pair of
\* a fetched list, whose average is shown as 0 or as a number from 1.0 to 5.0.
C29_AggregateWithinRatingRange ==
    /\ \A c \in Clients : rating[c] \in Ratings
    /\ \A p \in Projects :
           /\ projectsTbl[p].rating_count <= projectsTbl[p].rating_sum
           /\ projectsTbl[p].rating_sum <= MaxRating * projectsTbl[p].rating_count
    /\ \A c \in Clients : \A p \in DOMAIN projects[c] :
           /\ projects[c][p].rating_count <= projects[c][p].rating_sum
           /\ projects[c][p].rating_sum <= MaxRating * projects[c][p].rating_count
           /\ \/ getAverageRating(projects[c][p]) = 0
              \/ getAverageRating(projects[c][p]) \in (10 * MinRating)..(10 * MaxRating)

\* an update was lost to a race and a client's list shows the aggregate of
\* the single rating that was applied last
C29_Witness ==
    \E c \in Clients : \E p \in DOMAIN projects[c] :
        /\ FeedbackTotals(p).rating_count = 2
        /\ projectsTbl[p].rating_count = 1
        /\ projects[c][p] = projectsTbl[p]
        /\ getAverageRating(projects[c][p]) = 10 * MinRating

\* C30: the step in which an upload or a remove of the attachment resolves
\* leaves the draft's title, description, image_url and tags as they were
\* just before it, and replaces a link of the draft only by the attachment
\* it was asked to clear.
C30_AttachmentAnswerKeepsEdits ==
    [][lastStep'.name \in {"uploaded", "deleted", "delete_failed"} =>
          /\ portfolioFormData'.title = portfolioFormData.title
          /\ portfolioFormData'.description = portfolioFormData.description
          /\ portfolioFormData'.image_url = portfolioFormData.image_url
          /\ portfolioFormData'.tags = portfolioFormData.tags
          /\ portfolioFormData.file_type = "link" =>
                 portfolioFormData'.file_type = "link"]_vars

\* C21: whenever the form is closed and no request of the page is under
\* way, the file_url of every row of portfolio_items whose file_type is
\* image or pdf names an object of the bucket.
C21_RowsNameStoredObjects ==
    ~showPortfolioForm /\ InFlight = 0 =>
        \A id \in DOMAIN portfolioTbl :
            portfolioTbl[id].file_type \in {"image", "pdf"} =>
                /\ IsPublicUrl(portfolioTbl[id].file_url)
                /\ KeyOfUrl(portfolioTbl[id].file_url) \in DOMAIN bucket

\* C25: when the insert or update sent by handlePortfolioSubmit fails, the
\* handler ends there: the draft is not reset, the form is neither closed
\* nor taken off the item it edits, the list of items and the table are as
\* they were and no select is sent.
C25_FailedSaveLeavesFormAndList ==
    [][lastStep'.name = "submit_failed" =>
          /\ submitReq.sent /\ ~submitReq'.sent
          /\ portfolioFormData' = portfolioFormData
          /\ showPortfolioForm' = showPortfolioForm
          /\ editingItem' = editingItem
          /\ portfolioItems' = portfolioItems
          /\ portfolioTbl' = portfolioTbl
          /\ itemLoadsPending' = itemLoadsPending
          /\ itemLoadsReady' = itemLoadsReady]_vars

\* the update of an edited item has failed: the form is open on the item
\* with the draft that was submitted
C25_Witness ==
    /\ lastStep.name = "submit_failed"
    /\ showPortfolioForm
    /\ editingItem # NoItem
    /\ \A f \in TextFields : portfolioFormData[f] # ""
    /\ portfolioFormData.tags # EmptyTags
    /\ portfolioItems[editingItem].tags = EmptyTags
    /\ portfolioTbl = portfolioItems

\* C26: once every request of a client has resolved, and no other client
\* is signed in, the list the client shows holds the upvotes stored in the
\* table, whatever the order in which the answers to its selects arrived.
C26_ListEqualsTableWhenIdle ==
    \A c \in Clients :
        (/\ OnlyClient(c)
         /\ UpvotesOf(c) = {}
         /\ listPending[c] = 0
         /\ listReady[c] = {})
        => ideas[c] = SelectUpvotes(section[c])

====
